---------------------------- MODULE Spec2Model ----------------------------
(***************************************************************************)
(* A model of the capability-composition and serde engine of tsrustacean:  *)
(*   derive.ts      pluginRegistry, registerPlugin, derive                 *)
(*   lib/serde.ts   serde, serializePlugin, deserializePlugin              *)
(*   types.ts       Option                                                 *)
(* JavaScript values are records [w, t, n]: w counts the Option objects    *)
(* wrapped around a primitive of type t with payload n.  JavaScript        *)
(* objects are sequences of [k, v] entries in property insertion order.    *)
(***************************************************************************)
EXTENDS Integers, Sequences, FiniteSets, TLC

VARIABLES
    pluginRegistry, \* derive.ts: the registry object, its own properties
    metadata,       \* the metadata table of the prototype of UserDTO
    useDefine,      \* whether the build defines class fields (useDefineForClassFields)
    derived,        \* the class the latest call of derive returned
    last,           \* the caller: idle, or the call that has just returned
    registered,     \* history: per name, the descriptor of the latest registerPlugin
    atDerive        \* history: registered, as it was when derived was made

vars == <<pluginRegistry, metadata, useDefine, derived, last, registered, atDerive>>

(***************************************************************************)
(* Bounds of the model.                                                    *)
(***************************************************************************)
\* longest feature list handed to derive
MaxFeatures == 2
\* most entries of a record handed to deserialize or from
MaxDataKeys == 1

(***************************************************************************)
(* JavaScript values.                                                      *)
(***************************************************************************)
Undefined == [w |-> 0, t |-> "undefined", n |-> 0]

Null == [w |-> 0, t |-> "null", n |-> 0]

NaN == [w |-> 0, t |-> "NaN", n |-> 0]

Num(k) == [w |-> 0, t |-> "number", n |-> k]

\* the number k/100 when k is no multiple of 100
Hundredths(k) == [w |-> 0, t |-> "number/100", n |-> k]

\* the k-th of some opaque, non-numeric strings
Str(k) == [w |-> 0, t |-> "string", n |-> k]

\* a method found on the prototype chain, read as a property value
FunctionValue == [w |-> 0, t |-> "function", n |-> 0]

(***************************************************************************)
(* types.ts: class Option.  An Option object holds one value (null when    *)
(* empty); a value with w > 0 is an Option whose held value has w - 1.     *)
(***************************************************************************)
OptionSome(value) == [value EXCEPT !.w = @ + 1]

OptionNone == OptionSome(Null)

InstanceofOption(value) == value.w > 0

OptionValue(opt) == [opt EXCEPT !.w = @ - 1]

isSome(opt) == OptionValue(opt) # Null

isNone(opt) == ~isSome(opt)

unwrapOr(opt, defaultValue) == IF isSome(opt) THEN OptionValue(opt) ELSE defaultValue

(***************************************************************************)
(* JavaScript objects: own enumerable properties in insertion order.       *)
(***************************************************************************)
EmptyObject == << >>

ObjectKeys(obj) == [i \in 1..Len(obj) |-> obj[i].k]

KeySet(obj) == {obj[i].k : i \in 1..Len(obj)}

HasOwn(obj, key) == key \in KeySet(obj)

\* obj[key] on a plain record: undefined when there is no such property
GetOwn(obj, key) ==
    IF HasOwn(obj, key)
    THEN obj[CHOOSE i \in 1..Len(obj) : obj[i].k = key].v
    ELSE Undefined

\* obj[key] = value: in place when the property exists, appended otherwise
SetOwn(obj, key, value) ==
    IF HasOwn(obj, key)
    THEN [i \in 1..Len(obj) |-> IF obj[i].k = key THEN [k |-> key, v |-> value] ELSE obj[i]]
    ELSE Append(obj, [k |-> key, v |-> value])

\* the names every object inherits from Object.prototype
ObjectPrototypeKeys ==
    {"constructor", "hasOwnProperty", "isPrototypeOf", "propertyIsEnumerable",
     "toLocaleString", "toString", "valueOf"}


(***************************************************************************)
(* derive.ts: the DerivePlugin descriptors.  A hook is named by the        *)
(* function it is; "none" is a hook the descriptor does not define.        *)
(***************************************************************************)
Plugin(feature, extendPrototype, extendConstructor, initializeInstance) ==
    [kind |-> "plugin", feature |-> feature, extendPrototype |-> extendPrototype,
     extendConstructor |-> extendConstructor, initializeInstance |-> initializeInstance]

\* pluginRegistry[feature] of a name that is no property at all: undefined
NoPlugin ==
    [kind |-> "undefined", feature |-> "", extendPrototype |-> "none",
     extendConstructor |-> "none", initializeInstance |-> "none"]

\* pluginRegistry[feature] of a name found on Object.prototype: a function,
\* truthy, with none of the hook properties
InheritedMember ==
    [kind |-> "inherited", feature |-> "", extendPrototype |-> "none",
     extendConstructor |-> "none", initializeInstance |-> "none"]

serializePlugin == Plugin("Serialize", "serde.serialize", "none", "none")

deserializePlugin == Plugin("Deserialize", "none", "serde.statics", "serde.defaults")

\* a descriptor supplied by a user of the library, with all three hooks; its
\* hooks install members of the names the serde hooks use
customPlugin(feature) == Plugin(feature, "custom.serialize", "custom.from", "custom.stamp")

FeatureNames == {"Serialize", "Deserialize", "Custom", "toString"}

PluginInputs ==
    {serializePlugin, deserializePlugin, customPlugin("Custom"), customPlugin("Serialize")}

\* the registry when only derive.ts has been loaded
EmptyRegistry == [f \in FeatureNames |-> NoPlugin]

\* pluginRegistry[plugin.feature] = plugin
registerPlugin(registry, plugin) == [registry EXCEPT ![plugin.feature] = plugin]

\* pluginRegistry[feature]: an own property, else what the plain object
\* inherits from Object.prototype, else undefined
RegistryGet(registry, feature) ==
    IF registry[feature] # NoPlugin THEN registry[feature]
    ELSE IF feature \in ObjectPrototypeKeys THEN InheritedMember
    ELSE NoPlugin

Truthy(plugin) == plugin.kind # "undefined"

\* the registry once lib/serde.ts has been loaded
SerdeRegistry == registerPlugin(registerPlugin(EmptyRegistry, serializePlugin), deserializePlugin)

(***************************************************************************)
(* The members hooks install: a table from member name to the function     *)
(* installed under it ("absent" when there is none).                       *)
(***************************************************************************)
MemberNames == {"serialize", "deserialize", "from"}

NoMembers == [m \in MemberNames |-> "absent"]

\* mutant: a member that is already defined is kept (a property that is not
\* configurable)
DefineProperty_KeepFirst(target, name, value) ==
    IF target[name] = "absent" THEN [target EXCEPT ![name] = value] ELSE target

\* Object.defineProperty(target, name, {value, writable, configurable})
DefineProperty(target, name, value) == [target EXCEPT ![name] = value]

\* plugin.extendPrototype(DerivedClass.prototype)
ExtendPrototype(hook, prototype) ==
    CASE hook = "serde.serialize" -> DefineProperty(prototype, "serialize", "serde.serialize")
      [] hook = "custom.serialize" -> DefineProperty(prototype, "serialize", "custom.serialize")
      [] OTHER -> prototype

\* mutant: the hook of deserializePlugin leaves out `from`
ExtendConstructor_WithoutFrom(hook, constructor) ==
    CASE hook = "serde.statics" -> DefineProperty(constructor, "deserialize", "serde.deserialize")
      [] hook = "custom.from" -> DefineProperty(constructor, "from", "custom.from")
      [] OTHER -> constructor

\* plugin.extendConstructor(DerivedClass)
ExtendConstructor(hook, constructor) ==
    CASE hook = "serde.statics" ->
            DefineProperty(DefineProperty(constructor, "deserialize", "serde.deserialize"),
                           "from", "serde.from")
      [] hook = "custom.from" -> DefineProperty(constructor, "from", "custom.from")
      [] OTHER -> constructor

(***************************************************************************)
(* derive.ts: derive(features)(constructor).  The class is the feature     *)
(* list its constructor closes over, its prototype and its statics; warned *)
(* and hooks record the console.warn calls and the hook calls of the loop. *)
(***************************************************************************)
NoClass ==
    [defined |-> FALSE, features |-> << >>, prototype |-> NoMembers,
     statics |-> NoMembers, warned |-> << >>, hooks |-> << >>]

\* one pass of `for (const feature of features)` at derive time
DeriveStep(cls, registry, i) ==
    LET feature == cls.features[i]
        plugin == RegistryGet(registry, feature)
        withProto ==
            IF plugin.extendPrototype # "none"
            THEN [cls EXCEPT !.prototype = ExtendPrototype(plugin.extendPrototype, @),
                             !.hooks = Append(@, [i |-> i, hook |-> "extendPrototype"])]
            ELSE cls
        withStatics ==
            IF plugin.extendConstructor # "none"
            THEN [withProto EXCEPT !.statics = ExtendConstructor(plugin.extendConstructor, @),
                                   !.hooks = Append(@, [i |-> i, hook |-> "extendConstructor"])]
            ELSE withProto
    IN  IF ~Truthy(plugin)
        THEN [cls EXCEPT !.warned = Append(@, feature)]
        ELSE withStatics

RECURSIVE DeriveLoop(_, _, _)
DeriveLoop(cls, registry, i) ==
    IF i > Len(cls.features) THEN cls
    ELSE DeriveLoop(DeriveStep(cls, registry, i), registry, i + 1)

derive(features, registry) ==
    DeriveLoop([NoClass EXCEPT !.defined = TRUE, !.features = features], registry, 1)

(***************************************************************************)
(* lib/serde.ts: SerdeOptions and the metadata table of a prototype, an    *)
(* object from field name to options.  rename "" and default Undefined     *)
(* stand for an option that is not declared; defaultIsFunction tells a     *)
(* zero-argument function returning `default` from the plain value.        *)
(***************************************************************************)
SerdeOptions(rename, default, defaultIsFunction, serialize_with) ==
    [rename |-> rename, default |-> default, defaultIsFunction |-> defaultIsFunction,
     serialize_with |-> serialize_with]

\* the options `{}`
NoOptions == SerdeOptions("", Undefined, FALSE, "none")

\* metadata[key] || {}
OptionsOf(table, key) ==
    IF HasOwn(table, key)
    THEN table[CHOOSE i \in 1..Len(table) : table[i].k = key].v
    ELSE NoOptions

\* mutant: the options of a field already annotated are kept
serde_KeepsFirst(table, propertyKey, options) ==
    IF HasOwn(table, propertyKey) THEN table ELSE SetOwn(table, propertyKey, options)

\* serde(options)(target, propertyKey): metadata[propertyKey] = options
serde(table, propertyKey, options) == SetOwn(table, propertyKey, options)

\* the serialize_with function (v) => v / 100, on the values of the model
Div100(value) ==
    CASE InstanceofOption(value) -> NaN
      [] value.t = "number" ->
            IF value.n % 100 = 0 THEN Num(value.n \div 100) ELSE Hundredths(value.n)
      [] value.t = "null" -> Num(0)
      [] OTHER -> NaN

\* options.serialize_with(value)
SerializeWith(fn, value) == IF fn = "div100" THEN Div100(value) ELSE value

(***************************************************************************)
(* The class the features are derived for, after UserDTO of the tests:     *)
(*   class UserDTO { id; balance; created_at?; nick?: Option<string>;      *)
(*     constructor(id, balance) { this.id = id; this.balance = balance } } *)
(***************************************************************************)
DeclaredFields == <<"id", "balance", "created_at", "nick">>

\* Reflect.getMetadata("design:type", instance, key) === Option: the compiler
\* records the declared type of a field together with its decorators
DesignTypeIsOption(table, key) == key = "nick" /\ HasOwn(table, key)

\* the position of a field in the class body
FieldIndex(key) == CHOOSE i \in 1..Len(DeclaredFields) : DeclaredFields[i] = key

Arg(args, i) == IF i <= Len(args) THEN args[i] ELSE Undefined

\* super(...args): with useDefineForClassFields every declared field is
\* defined (undefined) before the constructor body runs, without it a field
\* exists only once it is assigned
BaseConstructor(args, define) ==
    LET fields ==
            IF define
            THEN [i \in 1..Len(DeclaredFields) |-> [k |-> DeclaredFields[i], v |-> Undefined]]
            ELSE EmptyObject
    IN  SetOwn(SetOwn(fields, "id", Arg(args, 1)), "balance", Arg(args, 2))

(***************************************************************************)
(* Instances: own properties and the prototype of their class.             *)
(***************************************************************************)
\* key in instance
KeyIn(own, prototype, key) ==
    \/ HasOwn(own, key)
    \/ (key \in MemberNames /\ prototype[key] # "absent")
    \/ key \in ObjectPrototypeKeys

\* instance[key]
GetProp(own, prototype, key) ==
    IF HasOwn(own, key) THEN GetOwn(own, key)
    ELSE IF KeyIn(own, prototype, key) THEN FunctionValue
    ELSE Undefined

\* mutant: the default also replaces null
DefaultsStep_AlsoForNull(own, prototype, table, i) ==
    LET key == table[i].k
        options == table[i].v
        declared == options.defaultIsFunction \/ options.default # Undefined
    IN  IF declared /\ GetProp(own, prototype, key) \in {Undefined, Null}
        THEN SetOwn(own, key, options.default)
        ELSE own

\* deserializePlugin.initializeInstance, one pass of its loop
DefaultsStep(own, prototype, table, i) ==
    LET key == table[i].k
        options == table[i].v
        \* options.default !== undefined: a function is never undefined
        declared == options.defaultIsFunction \/ options.default # Undefined
    IN  IF declared /\ GetProp(own, prototype, key) = Undefined
        THEN SetOwn(own, key, options.default)
        ELSE own

RECURSIVE DefaultsLoop(_, _, _, _)
DefaultsLoop(own, prototype, table, i) ==
    IF i > Len(table) THEN own
    ELSE DefaultsLoop(DefaultsStep(own, prototype, table, i), prototype, table, i + 1)

\* plugin.initializeInstance(this)
InitializeInstance(hook, own, prototype, table) ==
    CASE hook = "serde.defaults" -> DefaultsLoop(own, prototype, table, 1)
      [] hook = "custom.stamp" ->
            IF GetProp(own, prototype, "created_at") = Undefined
            THEN SetOwn(own, "created_at", Str(2))
            ELSE own
      [] OTHER -> own

\* DerivedClass.constructor, one pass of its loop: the registry is read
\* when the instance is made
ConstructStep(obj, cls, registry, table, i) ==
    LET plugin == RegistryGet(registry, cls.features[i])
    IN  IF plugin.initializeInstance # "none"
        THEN [own |-> InitializeInstance(plugin.initializeInstance, obj.own, cls.prototype, table),
              inits |-> Append(obj.inits, [i |-> i, hook |-> plugin.initializeInstance,
                                          saw |-> obj.own])]
        ELSE obj

RECURSIVE ConstructLoop(_, _, _, _, _)
ConstructLoop(obj, cls, registry, table, i) ==
    IF i > Len(cls.features) THEN obj
    ELSE ConstructLoop(ConstructStep(obj, cls, registry, table, i), cls, registry, table, i + 1)

\* mutant: super() is called without the arguments
Construct_SuperWithoutArgs(cls, args, registry, table, define) ==
    ConstructLoop([own |-> BaseConstructor(<< >>, define), inits |-> << >>],
                  cls, registry, table, 1)

\* new DerivedClass(...args): the own properties, and the init hooks that
\* ran with the properties each of them found
Construct(cls, args, registry, table, define) ==
    ConstructLoop([own |-> BaseConstructor(args, define), inits |-> << >>],
                  cls, registry, table, 1)

(***************************************************************************)
(* lib/serde.ts: the serialize method serializePlugin installs.            *)
(***************************************************************************)
\* mutant: serialize_with is given the value before the Option is unwrapped
SerializeStep_TransformFirst(result, own, table, i) ==
    LET key == own[i].k
        options == OptionsOf(table, key)
        value == SerializeWith(options.serialize_with, own[i].v)
        newKey == IF options.rename # "" THEN options.rename ELSE key
    IN  SetOwn(result, newKey, IF InstanceofOption(value) THEN unwrapOr(value, Null) ELSE value)

\* one pass of `for (const key of keys)`
SerializeStep(result, own, table, i) ==
    LET key == own[i].k
        options == OptionsOf(table, key)
        value == own[i].v
        newKey == IF options.rename # "" THEN options.rename ELSE key
        unwrappedValue == IF InstanceofOption(value) THEN unwrapOr(value, Null) ELSE value
    IN  SetOwn(result, newKey, SerializeWith(options.serialize_with, unwrappedValue))

RECURSIVE SerializeLoop(_, _, _, _)
SerializeLoop(result, own, table, i) ==
    IF i > Len(own) THEN result
    ELSE SerializeLoop(SerializeStep(result, own, table, i), own, table, i + 1)

serialize(own, table) == SerializeLoop(EmptyObject, own, table, 1)

(***************************************************************************)
(* lib/serde.ts: the statics deserializePlugin installs.                   *)
(***************************************************************************)
\* the position of the first entry of the table whose rename is key, or 0
FindRename(table, key) ==
    LET hits == {i \in 1..Len(table) : table[i].v.rename = key}
    IN  IF hits = {} THEN 0 ELSE CHOOSE i \in hits : \A j \in hits : i <= j

\* mutant: a field of the name of the key is preferred to a rename
TargetKey_NameFirst(table, key) ==
    IF (\E i \in 1..Len(DeclaredFields) : DeclaredFields[i] = key) \/ FindRename(table, key) = 0
    THEN key
    ELSE table[FindRename(table, key)].k

\* the key deserialize assigns data[key] to
TargetKey(table, key) ==
    IF FindRename(table, key) # 0 THEN table[FindRename(table, key)].k ELSE key

\* propType === Option && value !== null ? Option.some(value) : value
WrapForType(table, key, value) ==
    IF DesignTypeIsOption(table, key) /\ value # Null THEN OptionSome(value) ELSE value

\* one pass of `for (const [key, value] of Object.entries(data))`
DeserializeStep(own, table, data, i) ==
    LET targetKey == TargetKey(table, data[i].k)
    IN  IF targetKey # ""
        THEN SetOwn(own, targetKey, WrapForType(table, targetKey, data[i].v))
        ELSE own

RECURSIVE DeserializeLoop(_, _, _, _)
DeserializeLoop(own, table, data, i) ==
    IF i > Len(data) THEN own
    ELSE DeserializeLoop(DeserializeStep(own, table, data, i), table, data, i + 1)

\* mutant: the entries are assigned to an empty object, not to `new this()`
deserialize_FromEmpty(fresh, table, data) ==
    DeserializeLoop(EmptyObject, table, data, 1)

\* Class.deserialize(data), given the instance `new this()` made
deserialize(fresh, table, data) == DeserializeLoop(fresh, table, data, 1)

\* one pass of `for (const key of Object.keys(source))`
FromStep(own, prototype, table, source, i) ==
    LET key == source[i].k
    IN  IF KeyIn(own, prototype, key)
        THEN SetOwn(own, key, WrapForType(table, key, source[i].v))
        ELSE own

RECURSIVE FromLoop(_, _, _, _, _)
FromLoop(own, prototype, table, source, i) ==
    IF i > Len(source) THEN own
    ELSE FromLoop(FromStep(own, prototype, table, source, i), prototype, table, source, i + 1)

\* Class.from(source), given the instance `new this()` made
from(fresh, prototype, table, source) == FromLoop(fresh, prototype, table, source, 1)

(***************************************************************************)
(* The inputs of the operations.                                           *)
(***************************************************************************)
\* the sequences over S of length at most n
SeqsUpTo(S, n) == UNION {[1..m -> S] : m \in 0..n}

FeatureLists == SeqsUpTo(FeatureNames, MaxFeatures)

SerdeFeatureLists == SeqsUpTo({"Serialize", "Deserialize"}, MaxFeatures)

\* the argument lists of `new`
ArgInputs ==
    {<< >>, <<Str(1), Num(10000)>>, <<OptionSome(Str(1)), OptionNone>>, <<Null, Str(2)>>,
     <<Num(0), Null>>}

\* the @serde annotations: those of the tests and of the rename example,
\* a rename to the name of another field, a default given as a function,
\* a default on a field the constructor assigns
AnnotationInputs ==
    {[field |-> "balance", options |-> SerdeOptions("", Undefined, FALSE, "div100")],
     [field |-> "balance", options |-> SerdeOptions("", Num(0), FALSE, "none")],
     [field |-> "balance", options |-> SerdeOptions("bal", Undefined, FALSE, "div100")],
     [field |-> "balance", options |-> SerdeOptions("id", Undefined, FALSE, "none")],
     [field |-> "created_at", options |-> SerdeOptions("createdAt", Str(1), FALSE, "none")],
     [field |-> "nick", options |-> SerdeOptions("", OptionNone, TRUE, "none")]}

\* the annotations of UserDTO in the tests
TestMetadata ==
    serde(serde(EmptyObject, "balance", SerdeOptions("", Undefined, FALSE, "div100")),
          "created_at", SerdeOptions("createdAt", Str(1), FALSE, "none"))

DataKeys == {"id", "balance", "bal", "nick", "password", "serialize"}

DataValues == {Num(20000), Null, OptionSome(Str(1))}

\* the records handed to deserialize and from: distinct keys, in some order
DataInputs ==
    {d \in SeqsUpTo([k : DataKeys, v : DataValues], MaxDataKeys) :
        \A i, j \in 1..Len(d) : d[i].k = d[j].k => i = j}

Idle == [op |-> "idle"]

(***************************************************************************)
(* The operations.  The program is single-threaded: one call runs at a     *)
(* time.  last is the caller's position: idle between calls, or holding    *)
(* the inputs and the result of the call that has just returned, until     *)
(* the caller lets go of it (Return).  registerPlugin, serde and derive    *)
(* leave their results in the registry, the metadata table and the class.  *)
(***************************************************************************)
RegisterPlugin(plugin) ==
    /\ last = Idle
    /\ pluginRegistry' = registerPlugin(pluginRegistry, plugin)
    /\ registered' = [f \in FeatureNames |-> IF f = plugin.feature THEN plugin ELSE registered[f]]
    /\ UNCHANGED <<metadata, useDefine, derived, last, atDerive>>

\* a decorator of the class body: the decorators of the fields run in the
\* order of the fields, before the class is handed to derive
Serde(annotation) ==
    /\ last = Idle
    /\ ~derived.defined
    /\ \A i \in 1..Len(metadata) : FieldIndex(metadata[i].k) <= FieldIndex(annotation.field)
    /\ metadata' = serde(metadata, annotation.field, annotation.options)
    /\ last' = [op |-> "serde", field |-> annotation.field, options |-> annotation.options,
                before |-> metadata]
    /\ UNCHANGED <<pluginRegistry, registered, useDefine, derived, atDerive>>

Derive(features) ==
    /\ last = Idle
    /\ derived' = derive(features, pluginRegistry)
    /\ atDerive' = registered
    /\ UNCHANGED <<pluginRegistry, registered, metadata, useDefine, last>>

New(args) ==
    /\ last = Idle
    /\ derived.defined
    /\ LET obj == Construct(derived, args, pluginRegistry, metadata, useDefine)
       IN  last' = [op |-> "new", args |-> args, inits |-> obj.inits,
                    own |-> obj.own, prototype |-> derived.prototype]
    /\ UNCHANGED <<pluginRegistry, registered, metadata, useDefine, derived, atDerive>>

\* Class.deserialize(data), where that is the static deserializePlugin installed
CallDeserialize(data) ==
    /\ last = Idle
    /\ derived.defined
    /\ derived.statics["deserialize"] = "serde.deserialize"
    /\ LET fresh == Construct(derived, << >>, pluginRegistry, metadata, useDefine).own
       IN  last' = [op |-> "deserialize", data |-> data, fresh |-> fresh,
                    own |-> deserialize(fresh, metadata, data),
                    prototype |-> derived.prototype]
    /\ UNCHANGED <<pluginRegistry, registered, metadata, useDefine, derived, atDerive>>

\* Class.from(source), where that is the static deserializePlugin installed
CallFrom(source) ==
    /\ last = Idle
    /\ derived.defined
    /\ derived.statics["from"] = "serde.from"
    /\ LET fresh == Construct(derived, << >>, pluginRegistry, metadata, useDefine).own
       IN  last' = [op |-> "from", source |-> source, fresh |-> fresh,
                    own |-> from(fresh, derived.prototype, metadata, source),
                    prototype |-> derived.prototype]
    /\ UNCHANGED <<pluginRegistry, registered, metadata, useDefine, derived, atDerive>>

\* instance.serialize() on the instance just returned, where that is the
\* method serializePlugin installed
CallSerialize ==
    /\ last.op \in {"new", "deserialize", "from"}
    /\ ~HasOwn(last.own, "serialize")
    /\ last.prototype["serialize"] = "serde.serialize"
    /\ last' = [op |-> "serialize", self |-> last.own, made |-> last.op,
                result |-> serialize(last.own, metadata)]
    /\ UNCHANGED <<pluginRegistry, registered, metadata, useDefine, derived, atDerive>>

\* the metadata of the prototype of a class B that extends the annotated
\* class: none of its own yet, the very object of the base class (shared),
\* or an object of its own with the entries in table
NoTable == [has |-> FALSE, shared |-> FALSE, table |-> EmptyObject]

\* serde(options)(B.prototype, propertyKey).  Reflect.getMetadata follows
\* the prototype chain, so without metadata of its own B.prototype yields
\* the object of the base class, if that has one; the entry is written into
\* the object found, which then becomes the metadata of B.prototype.  base
\* is the table of the base class, which exists once it has an entry.
serdeOnSubclass(target, base, propertyKey, options) ==
    IF target.has /\ ~target.shared
    THEN [target |-> [target EXCEPT !.table = serde(@, propertyKey, options)], base |-> base]
    ELSE IF target.shared \/ base # EmptyObject
    THEN [target |-> [has |-> TRUE, shared |-> TRUE, table |-> EmptyObject],
          base |-> serde(base, propertyKey, options)]
    ELSE [target |-> [has |-> TRUE, shared |-> FALSE,
                      table |-> serde(EmptyObject, propertyKey, options)],
          base |-> base]

\* a field decorator in the body of `class B extends UserDTO`
SerdeOnSubclass(annotation) ==
    /\ last = Idle \/ last.op = "serde.subclass"
    /\ ~derived.defined
    /\ LET target == IF last = Idle THEN NoTable ELSE last.target
           out == serdeOnSubclass(target, metadata, annotation.field, annotation.options)
       IN  /\ metadata' = out.base
           /\ last' = [op |-> "serde.subclass", field |-> annotation.field,
                       options |-> annotation.options, before |-> metadata,
                       target |-> out.target]
    /\ UNCHANGED <<pluginRegistry, registered, useDefine, derived, atDerive>>

\* Class.deserialize(x.serialize()) for the record x.serialize() has just
\* returned, where that is the static deserializePlugin installed
CallDeserializeSerialized ==
    /\ last.op = "serialize"
    /\ derived.statics["deserialize"] = "serde.deserialize"
    /\ LET fresh == Construct(derived, << >>, pluginRegistry, metadata, useDefine).own
       IN  last' = [op |-> "roundtrip", self |-> last.self, data |-> last.result,
                    fresh |-> fresh, own |-> deserialize(fresh, metadata, last.result)]
    /\ UNCHANGED <<pluginRegistry, registered, metadata, useDefine, derived, atDerive>>

\* the caller lets go of the result
Return ==
    /\ last # Idle
    /\ last' = Idle
    /\ UNCHANGED <<pluginRegistry, registered, metadata, useDefine, derived, atDerive>>

(***************************************************************************)
(* Classes as objects.  An object has a prototype link (proto, 0 at the    *)
(* end of the chain), own members and, when it is a constructor, the       *)
(* object its instances are linked to (prototype, else 0).  Base is        *)
(* object 1 and Base.prototype object 2.                                   *)
(***************************************************************************)
Object(proto, prototype, members) ==
    [proto |-> proto, prototype |-> prototype, members |-> members]

BaseHeap == <<Object(0, 2, NoMembers), Object(0, 0, NoMembers)>>

\* obj[name], found on the object or up its prototype chain
RECURSIVE Lookup(_, _, _)
Lookup(heap, obj, name) ==
    IF obj = 0 THEN "absent"
    ELSE IF heap[obj].members[name] # "absent" THEN heap[obj].members[name]
    ELSE Lookup(heap, heap[obj].proto, name)

\* the objects on the prototype chain that starts at obj
RECURSIVE Chain(_, _)
Chain(heap, obj) == IF obj = 0 THEN {} ELSE {obj} \cup Chain(heap, heap[obj].proto)

\* x instanceof cls, for an x whose prototype link is proto
InstanceofClass(heap, proto, cls) == heap[cls].prototype \in Chain(heap, proto)

\* mutant: the hooks are applied to the class handed in and that class is returned
ClassExtends_InPlace(heap, constructor, cls) ==
    [heap EXCEPT ![constructor].members =
                    [m \in MemberNames |->
                        IF cls.statics[m] # "absent" THEN cls.statics[m] ELSE @[m]],
                 ![heap[constructor].prototype].members =
                    [m \in MemberNames |->
                        IF cls.prototype[m] # "absent" THEN cls.prototype[m] ELSE @[m]]]

\* mutant: the hooks are applied to the new class and to the class handed in
ClassExtends_AlsoOnBase(heap, constructor, cls) ==
    ClassExtends_InPlace(heap, constructor, cls)
        \o <<Object(constructor, Len(heap) + 2, cls.statics),
             Object(heap[constructor].prototype, 0, cls.prototype)>>

\* `class extends constructor` with the members the hooks defined on it:
\* a new constructor linked to the base, and a new prototype object linked
\* to the prototype of the base
ClassExtends(heap, constructor, cls) ==
    heap \o <<Object(constructor, Len(heap) + 2, cls.statics),
              Object(heap[constructor].prototype, 0, cls.prototype)>>

\* the class the decorator returned: the constructor made last, or the
\* class handed in when none was made
Returned(before, after, constructor) ==
    IF Len(after) > Len(before) THEN Len(after) - 1 ELSE constructor

\* derive(features)(Base) once more, for the feature list of the class
\* already derived from Base
DeriveAgain ==
    /\ last = Idle
    /\ derived.defined
    /\ LET second == derive(derived.features, pluginRegistry)
           heapA == ClassExtends(BaseHeap, 1, derived)
           heapB == ClassExtends(heapA, 1, second)
       IN  last' = [op |-> "derive.again", first |-> derived, second |-> second,
                    A |-> Returned(BaseHeap, heapA, 1), B |-> Returned(heapA, heapB, 1),
                    made |-> heapB, heap |-> heapB, replaced |-> << >>]
    /\ UNCHANGED <<pluginRegistry, registered, metadata, useDefine, derived, atDerive>>

\* new Base(...args) for the class that was handed to derive: its own
\* constructor, which knows of no feature list
NewBase(args) ==
    /\ last = Idle
    /\ derived.defined
    /\ last' = [op |-> "new.base", args |-> args, inits |-> << >>,
                own |-> BaseConstructor(args, useDefine),
                heap |-> ClassExtends(BaseHeap, 1, derived), proto |-> BaseHeap[1].prototype]
    /\ UNCHANGED <<pluginRegistry, registered, metadata, useDefine, derived, atDerive>>

\* Object.defineProperty(obj, name, ...) by the caller, on one of the two
\* classes or on the prototype of one of them
ReplaceMember(obj, name) ==
    /\ last.op = "derive.again"
    /\ last.replaced = << >>
    /\ obj \in {last.A, last.B, last.heap[last.A].prototype, last.heap[last.B].prototype}
    /\ last' = [last EXCEPT !.heap[obj].members = DefineProperty(@, name, "replaced"),
                            !.replaced = Append(@, [obj |-> obj, name |-> name])]
    /\ UNCHANGED <<pluginRegistry, registered, metadata, useDefine, derived, atDerive>>

(***************************************************************************)
(* Spec: registration, derivation and instantiation in any order, for a    *)
(* class annotated as in the tests.                                        *)
(***************************************************************************)
Init ==
    /\ pluginRegistry = EmptyRegistry
    /\ registered = [f \in FeatureNames |-> NoPlugin]
    /\ metadata = TestMetadata
    /\ useDefine \in BOOLEAN
    /\ derived = NoClass
    /\ atDerive = registered
    /\ last = Idle

Next ==
    \/ \E plugin \in PluginInputs : RegisterPlugin(plugin)
    \/ \E features \in FeatureLists : Derive(features)
    \/ \E args \in ArgInputs : New(args)
    \/ DeriveAgain
    \/ \E args \in ArgInputs : NewBase(args)
    \/ \E obj \in 1..6, name \in MemberNames : ReplaceMember(obj, name)
    \/ Return

Spec == Init /\ [][Next]_vars

(***************************************************************************)
(* SpecSerde: annotation, derivation with the serde features and the       *)
(* methods they install, with lib/serde.ts loaded.                         *)
(***************************************************************************)
InitSerde ==
    /\ pluginRegistry = SerdeRegistry
    /\ registered = SerdeRegistry
    /\ metadata = EmptyObject
    /\ useDefine \in BOOLEAN
    /\ derived = NoClass
    /\ atDerive = registered
    /\ last = Idle

NextSerde ==
    \/ \E annotation \in AnnotationInputs : Serde(annotation)
    \/ \E features \in SerdeFeatureLists : Derive(features)
    \/ \E args \in ArgInputs : New(args)
    \/ \E data \in DataInputs : CallDeserialize(data)
    \/ \E source \in DataInputs : CallFrom(source)
    \/ CallSerialize
    \/ CallDeserializeSerialized
    \/ Return

SpecSerde == InitSerde /\ [][NextSerde]_vars

(***************************************************************************)
(* SpecSubclass: the field decorators of the class and of a class that     *)
(* extends it.                                                             *)
(***************************************************************************)
NextSubclass ==
    \/ \E annotation \in AnnotationInputs : Serde(annotation)
    \/ \E annotation \in AnnotationInputs : SerdeOnSubclass(annotation)
    \/ Return

SpecSubclass == InitSerde /\ [][NextSubclass]_vars

(***************************************************************************)
(* types.ts: Result, and the calls of Option and Result that can throw.    *)
(* A call returns a value or throws an Error with a message.               *)
(***************************************************************************)
Returns(value) == [thrown |-> FALSE, value |-> value, message |-> ""]

Throws(message) == [thrown |-> TRUE, value |-> Undefined, message |-> message]

\* Option.unwrap
unwrap(opt) ==
    IF isNone(opt) THEN Throws("Called unwrap on a None value") ELSE Returns(OptionValue(opt))

\* new Result(okValue, errValue)
NewResult(okValue, errValue) == [okValue |-> okValue, errValue |-> errValue]

\* Result.ok
ResultOk(value) == NewResult(value, Null)

\* Result.err
ResultErr(error) == NewResult(Null, error)

\* value instanceof Result
InstanceofResult(value) == "okValue" \in DOMAIN value

\* value instanceof Option, for a value that may be a Result
IsOption(value) == ~InstanceofResult(value) /\ InstanceofOption(value)

isOk(res) == res.okValue # Null

isErr(res) == ~isOk(res)

\* Result.unwrap
ResultUnwrap(res) ==
    IF isErr(res) THEN Throws("Called unwrap on an Err value") ELSE Returns(res.okValue)

\* Result.unwrapErr
unwrapErr(res) ==
    IF isOk(res) THEN Throws("Called unwrapErr on an Ok value") ELSE Returns(res.errValue)

(***************************************************************************)
(* match.ts.  A handler is a function of the caller: it returns its        *)
(* argument (echo) or a fixed value, and id tells the handlers of one      *)
(* call apart.  calls is the list of the handlers invoked, with the        *)
(* arguments they got.                                                     *)
(***************************************************************************)
Handler(id, echo, ret) == [id |-> id, echo |-> echo, ret |-> ret]

\* fn(arg)
Apply(fn, arg) == IF fn.echo THEN arg ELSE fn.ret

Called(fn, arg) == [id |-> fn.id, arg |-> arg]

\* Match.on(value): new Match(value)
MatchOn(value) == [value |-> value, result |-> Undefined, calls |-> << >>]

\* Match.some(fn)
MatchSome(m, fn) ==
    IF m.result = Undefined /\ IsOption(m.value) /\ isSome(m.value)
    THEN [m EXCEPT !.result = Apply(fn, unwrap(m.value).value),
                   !.calls = Append(@, Called(fn, unwrap(m.value).value))]
    ELSE m

\* Match.none(fn)
MatchNone(m, fn) ==
    IF m.result = Undefined /\ IsOption(m.value) /\ isNone(m.value)
    THEN [m EXCEPT !.result = Apply(fn, Undefined),
                   !.calls = Append(@, Called(fn, Undefined))]
    ELSE m

\* Match.ok(fn)
MatchOk(m, fn) ==
    IF m.result = Undefined /\ InstanceofResult(m.value) /\ isOk(m.value)
    THEN [m EXCEPT !.result = Apply(fn, ResultUnwrap(m.value).value),
                   !.calls = Append(@, Called(fn, ResultUnwrap(m.value).value))]
    ELSE m

\* Match.err(fn)
MatchErr(m, fn) ==
    IF m.result = Undefined /\ InstanceofResult(m.value) /\ isErr(m.value)
    THEN [m EXCEPT !.result = Apply(fn, unwrapErr(m.value).value),
                   !.calls = Append(@, Called(fn, unwrapErr(m.value).value))]
    ELSE m

\* m.some(fn), m.none(fn), m.ok(fn) or m.err(fn)
MatchMethod(m, kind, fn) ==
    CASE kind = "some" -> MatchSome(m, fn)
      [] kind = "none" -> MatchNone(m, fn)
      [] kind = "ok" -> MatchOk(m, fn)
      [] kind = "err" -> MatchErr(m, fn)

\* Match.default(fn): what it returns, and the calls made by then
MatchDefault(m, fn) ==
    IF m.result # Undefined
    THEN [returned |-> m.result, calls |-> m.calls]
    ELSE [returned |-> Apply(fn, Undefined), calls |-> Append(m.calls, Called(fn, Undefined))]

\* a handler the pattern does not have
NoHandler == Handler(0, FALSE, Undefined)

\* pattern.some, pattern.none, ... used as a condition
Supplied(fn) == fn.id # 0

\* the handler returned what it was called for
Handled(fn, arg) ==
    [thrown |-> FALSE, value |-> Apply(fn, arg), message |-> "", calls |-> <<Called(fn, arg)>>]

\* mutant: the default handler is preferred to the handler of the state
match_DefaultFirst(value, pattern) ==
    CASE Supplied(pattern.default) -> Handled(pattern.default, Undefined)
      [] IsOption(value) /\ isSome(value) /\ Supplied(pattern.some) ->
            Handled(pattern.some, unwrap(value).value)
      [] IsOption(value) /\ isNone(value) /\ Supplied(pattern.none) ->
            Handled(pattern.none, Undefined)
      [] InstanceofResult(value) /\ isOk(value) /\ Supplied(pattern.ok) ->
            Handled(pattern.ok, ResultUnwrap(value).value)
      [] InstanceofResult(value) /\ isErr(value) /\ Supplied(pattern.err) ->
            Handled(pattern.err, unwrapErr(value).value)
      [] OTHER ->
            [thrown |-> TRUE, value |-> Undefined, message |-> "No matching pattern",
             calls |-> << >>]

\* mutant: any handler of the class of the value stands in for a missing one
match_AnyHandlerOfTheClass(value, pattern) ==
    CASE IsOption(value) /\ isSome(value) /\ Supplied(pattern.some) ->
            Handled(pattern.some, unwrap(value).value)
      [] IsOption(value) /\ Supplied(pattern.none) ->
            Handled(pattern.none, Undefined)
      [] InstanceofResult(value) /\ isOk(value) /\ Supplied(pattern.ok) ->
            Handled(pattern.ok, ResultUnwrap(value).value)
      [] InstanceofResult(value) /\ Supplied(pattern.err) ->
            Handled(pattern.err, value.errValue)
      [] OTHER ->
            IF Supplied(pattern.default)
            THEN Handled(pattern.default, Undefined)
            ELSE [thrown |-> TRUE, value |-> Undefined, message |-> "No matching pattern",
                  calls |-> << >>]

\* the free function match(value, pattern)
match(value, pattern) ==
    CASE IsOption(value) /\ isSome(value) /\ Supplied(pattern.some) ->
            Handled(pattern.some, unwrap(value).value)
      [] IsOption(value) /\ isNone(value) /\ Supplied(pattern.none) ->
            Handled(pattern.none, Undefined)
      [] InstanceofResult(value) /\ isOk(value) /\ Supplied(pattern.ok) ->
            Handled(pattern.ok, ResultUnwrap(value).value)
      [] InstanceofResult(value) /\ isErr(value) /\ Supplied(pattern.err) ->
            Handled(pattern.err, unwrapErr(value).value)
      [] OTHER ->
            IF Supplied(pattern.default)
            THEN Handled(pattern.default, Undefined)
            ELSE [thrown |-> TRUE, value |-> Undefined, message |-> "No matching pattern",
                  calls |-> << >>]

(***************************************************************************)
(* The inputs and the operations of types.ts and match.ts.                 *)
(***************************************************************************)
\* the longest chain of handlers between Match.on and default
MaxChain == 2

\* the values handed to Option.some, Result.ok, Result.err and unwrapOr
WrappedInputs == {Str(1), Num(0), Undefined, Null, OptionNone}

\* the values matched on
MatchValues ==
    {OptionSome(v) : v \in WrappedInputs} \cup {ResultOk(v) : v \in {Str(1), Undefined, Null}}
        \cup {ResultErr(Str(2))}

HandlerKinds == {"some", "none", "ok", "err"}

\* the handlers of a chain: one returning its argument, one returning
\* nothing, one returning a string
ChainHandlers(id) == {Handler(id, TRUE, Undefined), Handler(id, FALSE, Undefined),
                      Handler(id, FALSE, Str(2))}

\* the handler objects of the free function: every handler is absent,
\* returns its argument, or returns a number of its own
PatternInputs ==
    [some : {NoHandler, Handler(1, TRUE, Undefined), Handler(1, FALSE, Num(1))},
     none : {NoHandler, Handler(2, FALSE, Num(2))},
     ok : {NoHandler, Handler(3, TRUE, Undefined), Handler(3, FALSE, Num(3))},
     err : {NoHandler, Handler(4, TRUE, Undefined)},
     default : {NoHandler, Handler(5, FALSE, Num(5)), Handler(5, FALSE, Undefined)}]

\* Option.some(value) and the queries on it
CallOptionSome(value, defaultValue) ==
    /\ last = Idle
    /\ LET opt == OptionSome(value)
       IN  last' = [op |-> "Option.some", arg |-> value, isSome |-> isSome(opt),
                    isNone |-> isNone(opt), unwrap |-> unwrap(opt),
                    defaultValue |-> defaultValue, unwrapOr |-> unwrapOr(opt, defaultValue)]
    /\ UNCHANGED <<pluginRegistry, registered, metadata, useDefine, derived, atDerive>>

\* Option.none() and the queries on it
CallOptionNone(defaultValue) ==
    /\ last = Idle
    /\ LET opt == OptionNone
       IN  last' = [op |-> "Option.none", isSome |-> isSome(opt),
                    isNone |-> isNone(opt), unwrap |-> unwrap(opt),
                    defaultValue |-> defaultValue, unwrapOr |-> unwrapOr(opt, defaultValue)]
    /\ UNCHANGED <<pluginRegistry, registered, metadata, useDefine, derived, atDerive>>

\* Result.ok(value) and the queries on it
CallResultOk(value) ==
    /\ last = Idle
    /\ LET res == ResultOk(value)
       IN  last' = [op |-> "Result.ok", arg |-> value, isOk |-> isOk(res), isErr |-> isErr(res),
                    unwrap |-> ResultUnwrap(res), unwrapErr |-> unwrapErr(res)]
    /\ UNCHANGED <<pluginRegistry, registered, metadata, useDefine, derived, atDerive>>

\* Result.err(error) and the queries on it
CallResultErr(error) ==
    /\ last = Idle
    /\ LET res == ResultErr(error)
       IN  last' = [op |-> "Result.err", arg |-> error, isOk |-> isOk(res), isErr |-> isErr(res),
                    unwrap |-> ResultUnwrap(res), unwrapErr |-> unwrapErr(res)]
    /\ UNCHANGED <<pluginRegistry, registered, metadata, useDefine, derived, atDerive>>

\* Match.on(value)
CallMatchOn(value) ==
    /\ last = Idle
    /\ last' = [op |-> "Match", m |-> MatchOn(value), chain |-> << >>]
    /\ UNCHANGED <<pluginRegistry, registered, metadata, useDefine, derived, atDerive>>

\* .some(fn), .none(fn), .ok(fn) or .err(fn) on the Match in hand
CallMatchMethod(kind) ==
    /\ last.op = "Match"
    /\ Len(last.chain) < MaxChain
    /\ \E fn \in ChainHandlers(Len(last.chain) + 1) :
        last' = [last EXCEPT !.m = MatchMethod(@, kind, fn),
                             !.chain = Append(@, [kind |-> kind, fn |-> fn])]
    /\ UNCHANGED <<pluginRegistry, registered, metadata, useDefine, derived, atDerive>>

\* .default(fn) on the Match in hand
CallMatchDefault ==
    /\ last.op = "Match"
    /\ \E fn \in ChainHandlers(Len(last.chain) + 1) :
        LET out == MatchDefault(last.m, fn)
        IN  last' = [op |-> "Match.default", value |-> last.m.value, chain |-> last.chain,
                     fn |-> fn, returned |-> out.returned, calls |-> out.calls]
    /\ UNCHANGED <<pluginRegistry, registered, metadata, useDefine, derived, atDerive>>

\* match(value, pattern)
CallMatch(value, pattern) ==
    /\ last = Idle
    /\ last' = [op |-> "match", value |-> value, pattern |-> pattern,
                out |-> match(value, pattern)]
    /\ UNCHANGED <<pluginRegistry, registered, metadata, useDefine, derived, atDerive>>

\* Match.on(value).some(s).none(n).ok(o).err(e).default(d) and
\* match(value, {some: s, none: n, ok: o, err: e, default: d}), for the
\* same value and handlers
CallMatchBothWays(value, pattern) ==
    /\ last = Idle
    /\ \A kind \in HandlerKinds \cup {"default"} : Supplied(pattern[kind])
    /\ LET m == MatchErr(MatchOk(MatchNone(MatchSome(MatchOn(value), pattern.some),
                                           pattern.none), pattern.ok), pattern.err)
       IN  last' = [op |-> "match.both", value |-> value, pattern |-> pattern,
                    fluent |-> MatchDefault(m, pattern.default),
                    free |-> match(value, pattern)]
    /\ UNCHANGED <<pluginRegistry, registered, metadata, useDefine, derived, atDerive>>

(***************************************************************************)
(* SpecMatch: the calls of types.ts and match.ts, which touch neither      *)
(* the registry nor a class.                                               *)
(***************************************************************************)
NextMatch ==
    \/ \E value \in WrappedInputs, defaultValue \in {Str(2), Undefined} :
            CallOptionSome(value, defaultValue)
    \/ \E defaultValue \in {Str(2), Undefined} : CallOptionNone(defaultValue)
    \/ \E value \in WrappedInputs : CallResultOk(value)
    \/ \E error \in WrappedInputs : CallResultErr(error)
    \/ \E value \in MatchValues : CallMatchOn(value)
    \/ \E kind \in HandlerKinds : CallMatchMethod(kind)
    \/ CallMatchDefault
    \/ \E value \in MatchValues, pattern \in PatternInputs : CallMatch(value, pattern)
    \/ \E value \in MatchValues, pattern \in PatternInputs : CallMatchBothWays(value, pattern)
    \/ Return

SpecMatch == Init /\ [][NextMatch]_vars

(***************************************************************************)
(* The legacy derive module: the free functions serialize(obj, options)    *)
(* and deserialize(json, ctor, options).  options.rename is an object      *)
(* literal from key to new name; customSerializers, when given, is an      *)
(* object literal holding (v) => v / 100 for the keys in `keys`.  Both are *)
(* read with [key], which also finds the members of Object.prototype.      *)
(***************************************************************************)
\* String(f) for a function f inherited under the name key, used as a key
NativeCode(key) == "function " \o key \o "() { [native code] }"

\* Object(value), what the inherited `constructor` returns when it is
\* called as a serializer
Boxed(value) == [value EXCEPT !.t = "object"]

\* options.rename?.[key] ?? key
LegacyNewKey(rename, key) ==
    IF HasOwn(rename, key) THEN rename[CHOOSE i \in 1..Len(rename) : rename[i].k = key].v
    ELSE IF key \in ObjectPrototypeKeys THEN NativeCode(key)
    ELSE key

\* serializer ? serializer(value) : value, for
\* serializer = options.customSerializers?.[key]
LegacySerializer(custom, key, value) ==
    IF ~custom.given THEN value
    ELSE IF key \in custom.keys THEN Div100(value)
    ELSE IF key \in ObjectPrototypeKeys THEN Boxed(value)
    ELSE value

\* mutant: the value is stored under the key of the object
LegacySerializeStep_KeepsKey(result, obj, options, i) ==
    SetOwn(result, obj[i].k, LegacySerializer(options.customSerializers, obj[i].k, obj[i].v))

\* serialize, one pass of its loop
LegacySerializeStep(result, obj, options, i) ==
    SetOwn(result, LegacyNewKey(options.rename, obj[i].k),
           LegacySerializer(options.customSerializers, obj[i].k, obj[i].v))

RECURSIVE LegacySerializeLoop(_, _, _, _)
LegacySerializeLoop(result, obj, options, i) ==
    IF i > Len(obj) THEN result
    ELSE LegacySerializeLoop(LegacySerializeStep(result, obj, options, i), obj, options, i + 1)

\* serialize(obj, options)
LegacySerialize(obj, options) == LegacySerializeLoop(EmptyObject, obj, options, 1)

\* the reduce of deserialize: the rename map turned round, entry by entry
RECURSIVE RenameMapLoop(_, _, _)
RenameMapLoop(acc, rename, i) ==
    IF i > Len(rename) THEN acc
    ELSE RenameMapLoop(SetOwn(acc, rename[i].v, rename[i].k), rename, i + 1)

\* renameMap[key] ?? key
LegacyTargetKey(renameMap, key) ==
    IF HasOwn(renameMap, key)
    THEN renameMap[CHOOSE i \in 1..Len(renameMap) : renameMap[i].k = key].v
    ELSE IF key \in ObjectPrototypeKeys THEN NativeCode(key)
    ELSE key

RECURSIVE LegacyDeserializeLoop(_, _, _, _)
LegacyDeserializeLoop(instance, renameMap, json, i) ==
    IF i > Len(json) THEN instance
    ELSE LegacyDeserializeLoop(
            SetOwn(instance, LegacyTargetKey(renameMap, json[i].k), json[i].v),
            renameMap, json, i + 1)

\* new TestClass(): id = "" and value = 0, and name, which has no
\* initializer, defined only with useDefineForClassFields
TestClass(define) ==
    IF define
    THEN <<[k |-> "id", v |-> Str(0)], [k |-> "name", v |-> Undefined],
           [k |-> "value", v |-> Num(0)]>>
    ELSE <<[k |-> "id", v |-> Str(0)], [k |-> "value", v |-> Num(0)]>>

\* deserialize(json, ctor, options), given the instance `new ctor()` made
LegacyDeserialize(json, fresh, options) ==
    LegacyDeserializeLoop(fresh, RenameMapLoop(EmptyObject, options.rename, 1), json, 1)

\* the most keys of an object handed to serialize
MaxLegacyKeys == 2

LegacyKeys == {"id", "name", "value", "full_name", "constructor"}

\* the objects handed to serialize: distinct keys, in some order
LegacyObjects ==
    {d \in SeqsUpTo([k : LegacyKeys, v : {Str(1), Num(100)}], MaxLegacyKeys) :
        \A i, j \in 1..Len(d) : d[i].k = d[j].k => i = j}

\* the rename maps: none, that of the tests, two keys sent to one name, a
\* key sent to the name of another, two keys swapped
RenameInputs ==
    {<< >>,
     <<[k |-> "name", v |-> "full_name"]>>,
     <<[k |-> "name", v |-> "full_name"], [k |-> "id", v |-> "full_name"]>>,
     <<[k |-> "name", v |-> "id"]>>,
     <<[k |-> "id", v |-> "name"], [k |-> "name", v |-> "id"]>>}

CustomSerializerInputs ==
    {[given |-> FALSE, keys |-> {}], [given |-> TRUE, keys |-> {}],
     [given |-> TRUE, keys |-> {"value"}]}

\* serialize(obj, options)
CallLegacySerialize(obj, options) ==
    /\ last = Idle
    /\ last' = [op |-> "legacy.serialize", obj |-> obj, options |-> options,
                result |-> LegacySerialize(obj, options)]
    /\ UNCHANGED <<pluginRegistry, registered, metadata, useDefine, derived, atDerive>>

\* deserialize(json, TestClass, {rename}) for the record serialize has just
\* returned and the rename map it was given
CallLegacyDeserialize ==
    /\ last.op = "legacy.serialize"
    /\ last' = [op |-> "legacy.deserialize", obj |-> last.obj, options |-> last.options,
                json |-> last.result, fresh |-> TestClass(useDefine),
                instance |-> LegacyDeserialize(last.result, TestClass(useDefine),
                                               [rename |-> last.options.rename])]
    /\ UNCHANGED <<pluginRegistry, registered, metadata, useDefine, derived, atDerive>>

NextLegacy ==
    \/ \E obj \in LegacyObjects, rename \in RenameInputs, custom \in CustomSerializerInputs :
            CallLegacySerialize(obj, [rename |-> rename, customSerializers |-> custom])
    \/ CallLegacyDeserialize
    \/ Return

SpecLegacy == Init /\ [][NextLegacy]_vars

(***************************************************************************)
(* The claims.                                                             *)
(***************************************************************************)
Listed(features) == {features[i] : i \in 1..Len(features)}

Greatest(S) == CHOOSE i \in S : \A j \in S : j <= i

\* the hook calls derive owes a class, given what was registered under the
\* name at position i of its feature list
CalledAt(cls, i, hook) == \E a \in 1..Len(cls.hooks) : cls.hooks[a] = [i |-> i, hook |-> hook]

\* C1: with lib/serde.ts loaded, the class derive returns for a list over
\* {Serialize, Deserialize} has the method serialize on its prototype exactly
\* when Serialize is listed, and the statics deserialize and from exactly when
\* Deserialize is listed; it has none of them anywhere else.
C1_ExposesListedSerdeFeatures ==
    derived.defined =>
        /\ (derived.prototype["serialize"] = "serde.serialize")
                <=> ("Serialize" \in Listed(derived.features))
        /\ (derived.statics["deserialize"] = "serde.deserialize")
                <=> ("Deserialize" \in Listed(derived.features))
        /\ (derived.statics["from"] = "serde.from")
                <=> ("Deserialize" \in Listed(derived.features))
        /\ "Serialize" \notin Listed(derived.features) => derived.prototype["serialize"] = "absent"
        /\ "Deserialize" \notin Listed(derived.features) =>
                derived.statics["deserialize"] = "absent" /\ derived.statics["from"] = "absent"
        /\ derived.statics["serialize"] = "absent"
        /\ derived.prototype["deserialize"] = "absent"
        /\ derived.prototype["from"] = "absent"

C1_Witness ==
    /\ derived.defined
    /\ derived.features = <<"Deserialize">>
    /\ derived.statics["from"] = "serde.from"
    /\ derived.prototype["serialize"] = "absent"

\* C2: derive warns once for each listed name that no registerPlugin call
\* has registered, and calls the extendPrototype and extendConstructor hooks
\* of every listed name that is registered.
C2_WarnsForEachUnregisteredName ==
    derived.defined =>
        LET fs == derived.features
            unregistered == {i \in 1..Len(fs) : atDerive[fs[i]] = NoPlugin}
        IN  /\ Len(derived.warned) = Cardinality(unregistered)
            /\ \A i \in unregistered : fs[i] \in Listed(derived.warned)
            /\ \A i \in (1..Len(fs)) \ unregistered :
                /\ atDerive[fs[i]].extendPrototype # "none" => CalledAt(derived, i, "extendPrototype")
                /\ atDerive[fs[i]].extendConstructor # "none" => CalledAt(derived, i, "extendConstructor")

\* C3: derive calls the hooks in the order of the feature list, for one
\* feature extendPrototype before extendConstructor, each hook of each
\* registered feature once per occurrence; a member that several listed
\* features install is, on the class, the one the last of them installed.
C3_HooksInListOrderLastWins ==
    derived.defined =>
        LET fs == derived.features
            hs == derived.hooks
            onPrototype(i) == ExtendPrototype(atDerive[fs[i]].extendPrototype, NoMembers)
            onClass(i) == ExtendConstructor(atDerive[fs[i]].extendConstructor, NoMembers)
            installP(m) == {i \in 1..Len(fs) : onPrototype(i)[m] # "absent"}
            installS(m) == {i \in 1..Len(fs) : onClass(i)[m] # "absent"}
        IN  /\ \A a, b \in 1..Len(hs) :
                a < b => \/ hs[a].i < hs[b].i
                         \/ /\ hs[a].i = hs[b].i
                            /\ hs[a].hook = "extendPrototype"
                            /\ hs[b].hook = "extendConstructor"
            /\ \A i \in 1..Len(fs) :
                /\ CalledAt(derived, i, "extendPrototype") <=> atDerive[fs[i]].extendPrototype # "none"
                /\ CalledAt(derived, i, "extendConstructor") <=> atDerive[fs[i]].extendConstructor # "none"
            /\ \A m \in MemberNames :
                /\ derived.prototype[m] =
                        IF installP(m) = {} THEN "absent" ELSE onPrototype(Greatest(installP(m)))[m]
                /\ derived.statics[m] =
                        IF installS(m) = {} THEN "absent" ELSE onClass(Greatest(installS(m)))[m]

C3_Witness ==
    /\ derived.defined
    /\ derived.features = <<"Custom", "Serialize">>
    /\ atDerive["Custom"] = customPlugin("Custom")
    /\ atDerive["Serialize"] = serializePlugin
    /\ derived.prototype["serialize"] = "serde.serialize"
    /\ Len(derived.hooks) = 3

\* C4: new runs the base constructor with all the arguments, then the
\* initializeInstance hook of each listed feature that has one, in list
\* order and once per occurrence; each hook finds the fields as the base
\* constructor and the hooks before it left them.
C4_BaseThenInitHooksInListOrder ==
    last.op = "new" =>
        LET n == Len(last.inits)
            hookAt(i) == registered[derived.features[i]].initializeInstance
            base == IF n = 0 THEN last.own ELSE last.inits[1].saw
        IN  /\ {last.inits[j].i : j \in 1..n} =
                    {i \in 1..Len(derived.features) : hookAt(i) # "none"}
            /\ \A j, k \in 1..n : j < k => last.inits[j].i < last.inits[k].i
            /\ \A j \in 1..n : last.inits[j].hook = hookAt(last.inits[j].i)
            /\ GetOwn(base, "id") = Arg(last.args, 1)
            /\ GetOwn(base, "balance") = Arg(last.args, 2)
            /\ \A j \in 1..n :
                (IF j = n THEN last.own ELSE last.inits[j + 1].saw) =
                    InitializeInstance(last.inits[j].hook, last.inits[j].saw,
                                       last.prototype, metadata)

C4_Witness ==
    /\ last.op = "new"
    /\ last.args = <<Str(1), Num(10000)>>
    /\ derived.features = <<"Custom", "Deserialize">>
    /\ Len(last.inits) = 2
    /\ GetOwn(last.inits[2].saw, "created_at") = Str(2)
    /\ GetOwn(last.own, "created_at") = Str(2)

\* C5: looking a name up in the registry yields the descriptor of the latest
\* registerPlugin call for that name, and nothing for a name no call has
\* registered.
C5_LookupYieldsLatestRegistration ==
    \A f \in FeatureNames : RegistryGet(pluginRegistry, f) = registered[f]

\* the key the field k is serialized under, and the field a key of a payload
\* names, as the specification words them
OutKey(k) == IF OptionsOf(metadata, k).rename # "" THEN OptionsOf(metadata, k).rename ELSE k

OutValue(k, v) ==
    LET u == IF ~InstanceofOption(v) THEN v
             ELSE IF isNone(v) THEN Null ELSE OptionValue(v)
    IN  IF OptionsOf(metadata, k).serialize_with = "div100" THEN Div100(u) ELSE u

Renamed(key) == {j \in 1..Len(metadata) : metadata[j].v.rename = key}

FieldFor(key) ==
    IF Renamed(key) = {} THEN key
    ELSE metadata[CHOOSE j \in Renamed(key) : \A h \in Renamed(key) : j <= h].k

\* the entries of a payload after which no later entry names the same field
Decisive(data) ==
    {i \in 1..Len(data) :
        \A j \in 1..Len(data) : j > i => FieldFor(data[j].k) # FieldFor(data[i].k)}

\* C6 as claimed: serialize() returns a record with, for each own field k
\* with value v, the entry OutKey(k) -> OutValue(k, v), and no other entry.
C6_EveryFieldHasItsEntry ==
    last.op = "serialize" =>
        /\ \A i \in 1..Len(last.self) :
            /\ HasOwn(last.result, OutKey(last.self[i].k))
            /\ GetOwn(last.result, OutKey(last.self[i].k)) =
                    OutValue(last.self[i].k, last.self[i].v)
        /\ KeySet(last.result) = {OutKey(last.self[i].k) : i \in 1..Len(last.self)}

\* C6 as amended: serialize() returns a record whose keys are the output
\* keys of the own fields and whose entry for an output key is
\* OutValue(k, v) of the last own field k, in enumeration order, with that
\* output key.
C6_LastFieldOfAnOutputKeyHasItsEntry ==
    last.op = "serialize" =>
        /\ \A i \in 1..Len(last.self) :
            (\A j \in 1..Len(last.self) :
                j > i => OutKey(last.self[j].k) # OutKey(last.self[i].k))
            => GetOwn(last.result, OutKey(last.self[i].k)) =
                    OutValue(last.self[i].k, last.self[i].v)
        /\ KeySet(last.result) = {OutKey(last.self[i].k) : i \in 1..Len(last.self)}

C6_Witness ==
    /\ last.op = "serialize"
    /\ last.self = <<[k |-> "id", v |-> OptionSome(Str(1))], [k |-> "balance", v |-> OptionNone]>>
    /\ OptionsOf(metadata, "balance").rename = "bal"
    /\ last.result = <<[k |-> "id", v |-> Str(1)], [k |-> "bal", v |-> Num(0)]>>

\* C7 as claimed: deserialize(data) assigns data[key] to the field whose
\* rename is key when there is one, else to the field named key; no
\* transform is applied.
C7_AssignsTheValueOfTheKey ==
    last.op = "deserialize" =>
        \A i \in Decisive(last.data) :
            GetOwn(last.own, FieldFor(last.data[i].k)) = last.data[i].v

\* C7 as amended: deserialize(data) assigns to that field data[key], or
\* Option.some(data[key]) when the declared type of the field is Option and
\* data[key] is not null; no transform is applied.
C7_AssignsTheValueOrItsOption ==
    last.op = "deserialize" =>
        \A i \in Decisive(last.data) :
            LET f == FieldFor(last.data[i].k)
                v == last.data[i].v
            IN  GetOwn(last.own, f) =
                    IF DesignTypeIsOption(metadata, f) /\ v # Null THEN OptionSome(v) ELSE v

C7_Witness ==
    /\ last.op = "deserialize"
    /\ last.data = <<[k |-> "id", v |-> Num(20000)]>>
    /\ OptionsOf(metadata, "balance").rename = "id"
    /\ GetOwn(last.own, "balance") = Num(20000)
    /\ GetOwn(last.own, "id") = Undefined

\* C8: a key of the payload that is no rename and no field name of the
\* class leaves no property of its name on the instance deserialize returns.
C8_UnknownKeysAreIgnored ==
    last.op = "deserialize" =>
        \A i \in 1..Len(last.data) :
            (Renamed(last.data[i].k) = {} /\ last.data[i].k \notin Listed(DeclaredFields))
            => ~HasOwn(last.own, last.data[i].k)

\* C9: a field whose name and whose rename are both missing from the payload
\* is, on the instance deserialize returns, as zero-argument construction
\* and the init hooks left it: holding its declared default, else undefined.
C9_MissingKeysLeaveFieldsAlone ==
    last.op = "deserialize" =>
        \A f \in Listed(DeclaredFields) :
            (f \notin KeySet(last.data) /\ OptionsOf(metadata, f).rename \notin KeySet(last.data))
            => /\ HasOwn(last.own, f) <=> HasOwn(last.fresh, f)
               /\ GetOwn(last.own, f) = GetOwn(last.fresh, f)
               /\ GetOwn(last.own, f) = OptionsOf(metadata, f).default

C9_Witness ==
    /\ last.op = "deserialize"
    /\ last.data = <<[k |-> "id", v |-> Num(20000)]>>
    /\ OptionsOf(metadata, "created_at").rename = "createdAt"
    /\ GetOwn(last.own, "created_at") = Str(1)
    /\ GetOwn(last.own, "id") = Num(20000)

\* C10: from(source) returns a new zero-argument instance in which every
\* key of source that is a field of the instance holds source[key], and on
\* which no other key of source is set.
C10_CopiesExactlyTheFieldsOfTheTarget ==
    last.op = "from" =>
        \A i \in 1..Len(last.source) :
            LET key == last.source[i].k
            IN  IF HasOwn(last.fresh, key)
                THEN GetOwn(last.own, key) = last.source[i].v
                ELSE ~HasOwn(last.own, key)

\* the instance as the constructor of the derived class left it
Constructed == IF last.op = "new" THEN last.own ELSE last.fresh

DefaultDeclared(f) ==
    OptionsOf(metadata, f).defaultIsFunction \/ OptionsOf(metadata, f).default # Undefined

\* C11: on every construction path of a class derived with Deserialize, a
\* field with a declared default that the base constructor left undefined
\* holds the default (the result of the call for a function), and a field
\* the base constructor gave any other value keeps that value.
C11_DefaultsOnlyWhereUndefined ==
    (last.op \in {"new", "deserialize", "from"} /\ "Deserialize" \in Listed(derived.features)) =>
        LET base == BaseConstructor(IF last.op = "new" THEN last.args ELSE << >>, useDefine)
        IN  \A f \in Listed(DeclaredFields) :
                IF GetOwn(base, f) = Undefined
                THEN DefaultDeclared(f) => GetOwn(Constructed, f) = OptionsOf(metadata, f).default
                ELSE GetOwn(Constructed, f) = GetOwn(base, f)

C11_Witness ==
    /\ last.op = "new"
    /\ "Deserialize" \in Listed(derived.features)
    /\ last.args = <<Num(0), Null>>
    /\ OptionsOf(metadata, "balance").default = Num(0)
    /\ OptionsOf(metadata, "nick").defaultIsFunction
    /\ GetOwn(last.own, "balance") = Null
    /\ GetOwn(last.own, "nick") = OptionNone

\* C12: for a class derived with Serialize and Deserialize whose fields
\* have no rename and no transform, every field of
\* Class.deserialize(x.serialize()) equals the same field of x.
C12_RoundTripReproducesTheFields ==
    ( /\ last.op = "roundtrip"
      /\ \A i \in 1..Len(metadata) :
            metadata[i].v.rename = "" /\ metadata[i].v.serialize_with = "none" )
    => \A i \in 1..Len(last.self) : GetOwn(last.own, last.self[i].k) = last.self[i].v

\* the state of a matched value and what a handler for that state is given
StateOf(value) ==
    IF InstanceofResult(value)
    THEN IF value.okValue # Null THEN "ok" ELSE "err"
    ELSE IF value.w > 0 /\ [value EXCEPT !.w = @ - 1] # Null THEN "some" ELSE "none"

Payload(value) ==
    CASE StateOf(value) = "some" -> [value EXCEPT !.w = @ - 1]
      [] StateOf(value) = "none" -> Undefined
      [] StateOf(value) = "ok" -> value.okValue
      [] StateOf(value) = "err" -> value.errValue

\* the places of a chain whose handler is of the kind of the state of the value
Matching(chain, value) == {i \in 1..Len(chain) : chain[i].kind = StateOf(value)}

\* C13: in Match.on(value).h1(f1)...hn(fn).default(d), whatever the handlers
\* return, only the first handler whose kind is the state of the value is
\* invoked and default returns its result; d is invoked, and its result
\* returned, only when no handler matched.
C13_OnlyTheFirstMatchingHandlerRuns ==
    last.op = "Match.default" =>
        LET hits == Matching(last.chain, last.value)
            first == CHOOSE i \in hits : \A j \in hits : i <= j
        IN  IF hits = {}
            THEN /\ last.calls = <<Called(last.fn, Undefined)>>
                 /\ last.returned = Apply(last.fn, Undefined)
            ELSE /\ last.calls = <<Called(last.chain[first].fn, Payload(last.value))>>
                 /\ last.returned = Apply(last.chain[first].fn, Payload(last.value))

\* the handler of a pattern named after a state
Named(pattern, state) ==
    CASE state = "some" -> pattern.some
      [] state = "none" -> pattern.none
      [] state = "ok" -> pattern.ok
      [] state = "err" -> pattern.err

\* C14: match(value, pattern) returns the result of the handler named after
\* the state of the value when the pattern has it, else the result of the
\* default handler when the pattern has one; no other handler is invoked.
C14_MatchCallsTheHandlerOfTheState ==
    last.op = "match" =>
        LET own == Named(last.pattern, StateOf(last.value))
        IN  /\ Supplied(own) =>
                /\ ~last.out.thrown
                /\ last.out.value = Apply(own, Payload(last.value))
                /\ last.out.calls = <<Called(own, Payload(last.value))>>
            /\ (~Supplied(own) /\ Supplied(last.pattern.default)) =>
                /\ ~last.out.thrown
                /\ last.out.value = Apply(last.pattern.default, Undefined)
                /\ last.out.calls = <<Called(last.pattern.default, Undefined)>>

C14_Witness ==
    /\ last.op = "match"
    /\ last.value = OptionSome(Str(1))
    /\ ~Supplied(last.pattern.some)
    /\ Supplied(last.pattern.none) /\ Supplied(last.pattern.ok) /\ Supplied(last.pattern.err)
    /\ last.out.value = Num(5)

\* C15: match throws "No matching pattern" exactly when the pattern has
\* neither a handler for the state of the value nor a default; so it does
\* for the pattern {} and every value.
C15_ThrowsExactlyWithoutHandlerAndDefault ==
    last.op = "match" =>
        /\ last.out.thrown <=>
                /\ ~Supplied(Named(last.pattern, StateOf(last.value)))
                /\ ~Supplied(last.pattern.default)
        /\ last.out.thrown => last.out.message = "No matching pattern" /\ last.out.calls = << >>

C15_Witness ==
    /\ last.op = "match"
    /\ last.value = ResultErr(Str(2))
    /\ \A state \in HandlerKinds : ~Supplied(Named(last.pattern, state))
    /\ ~Supplied(last.pattern.default)
    /\ last.out.thrown

\* C16: for every value v, Option.some(v) has a value (isSome() true,
\* isNone() false) and unwrap() returns v; Option.none() is empty, unwrap()
\* on it throws "Called unwrap on a None value" and unwrapOr(d) returns d.
C16_SomeHasItsValueNoneHasNone ==
    /\ last.op = "Option.some" =>
        /\ last.isSome /\ ~last.isNone
        /\ last.unwrap = Returns(last.arg)
    /\ last.op = "Option.none" =>
        /\ ~last.isSome /\ last.isNone
        /\ last.unwrap = Throws("Called unwrap on a None value")
        /\ last.unwrapOr = last.defaultValue

\* C17: for every value v, Result.ok(v) is a success (isOk() true, isErr()
\* false), unwrap() returns v and unwrapErr() throws; for every error e,
\* Result.err(e) is a failure, unwrapErr() returns e and unwrap() throws
\* "Called unwrap on an Err value".
C17_OkIsSuccessErrIsFailure ==
    /\ last.op = "Result.ok" =>
        /\ last.isOk /\ ~last.isErr
        /\ last.unwrap = Returns(last.arg)
        /\ last.unwrapErr.thrown
    /\ last.op = "Result.err" =>
        /\ last.isErr /\ ~last.isOk
        /\ last.unwrapErr = Returns(last.arg)
        /\ last.unwrap = Throws("Called unwrap on an Err value")

\* C18: derive called twice with the same base class and feature list
\* gives two distinct classes, each with the members of a full run of the
\* hooks; a member defined on one of them or on its prototype leaves every
\* member of the other as it was, and an instance of one is not an instance
\* of the other.
C18_TwoDerivationsAreIndependent ==
    last.op = "derive.again" =>
        LET A == last.A
            B == last.B
            Ap == last.heap[A].prototype
            Bp == last.heap[B].prototype
            Side(obj) == IF obj \in {A, Ap} THEN {B, Bp} ELSE {A, Ap}
        IN  /\ Cardinality({1, 2, A, B, Ap, Bp}) = 6
            /\ \A m \in MemberNames :
                /\ Lookup(last.made, Ap, m) = derive(last.first.features, atDerive).prototype[m]
                /\ Lookup(last.made, A, m) = derive(last.first.features, atDerive).statics[m]
                /\ Lookup(last.made, Bp, m) = derive(last.first.features, registered).prototype[m]
                /\ Lookup(last.made, B, m) = derive(last.first.features, registered).statics[m]
            /\ \A i \in 1..Len(last.replaced), m \in MemberNames :
                \A other \in Side(last.replaced[i].obj) :
                    Lookup(last.heap, other, m) = Lookup(last.made, other, m)
            /\ InstanceofClass(last.heap, Ap, A) /\ ~InstanceofClass(last.heap, Ap, B)
            /\ InstanceofClass(last.heap, Bp, B) /\ ~InstanceofClass(last.heap, Bp, A)

C18_Witness ==
    /\ last.op = "derive.again"
    /\ last.first.features = <<"Serialize", "Deserialize">>
    /\ last.replaced = <<[obj |-> last.heap[last.A].prototype, name |-> "serialize"]>>
    /\ Lookup(last.heap, last.heap[last.A].prototype, "serialize") = "replaced"
    /\ Lookup(last.heap, last.heap[last.B].prototype, "serialize") = "serde.serialize"
    /\ Lookup(last.heap, last.B, "from") = "serde.from"

\* C19: the metadata table of a class, empty to begin with, maps fields of
\* the class only, each at most once; after every annotation it maps the
\* annotated field to the options of that annotation, whatever it held for
\* the field, and every other field as before: to the options of its last
\* annotation if it has one, and not at all otherwise.
C19_LastAnnotationOfAFieldWins ==
    /\ KeySet(metadata) \subseteq Listed(DeclaredFields)
    /\ last.op = "serde" =>
        /\ KeySet(metadata) = KeySet(last.before) \cup {last.field}
        /\ \A i \in 1..Len(metadata) :
            metadata[i].v = IF metadata[i].k = last.field THEN last.options
                            ELSE GetOwn(last.before, metadata[i].k)
        /\ \A i, j \in 1..Len(metadata) : metadata[i].k = metadata[j].k => i = j

C19_Witness ==
    /\ last.op = "serde"
    /\ HasOwn(last.before, last.field)
    /\ GetOwn(last.before, last.field) # last.options
    /\ Len(last.before) = 1
    /\ metadata = <<[k |-> last.field, v |-> last.options]>>

\* the new name of a key under a rename map, and the value serialize is to
\* store for it
NewName(rename, k) ==
    IF \E i \in 1..Len(rename) : rename[i].k = k
    THEN rename[CHOOSE i \in 1..Len(rename) : rename[i].k = k].v
    ELSE k

Serialized(custom, k, v) == IF custom.given /\ k \in custom.keys THEN Div100(v) ELSE v

NoCustomSerializers(custom) == ~custom.given \/ custom.keys = {}

\* the rename map sends no two keys to one name, and no key of the object
\* is the name of a member of Object.prototype or, unless the map renames
\* it, a new name of the map
Unambiguous(obj, rename) ==
    /\ \A i, j \in 1..Len(rename) : rename[i].v = rename[j].v => i = j
    /\ \A i \in 1..Len(obj) :
        /\ obj[i].k \notin ObjectPrototypeKeys
        /\ (\A j \in 1..Len(rename) : rename[j].k # obj[i].k)
            => \A j \in 1..Len(rename) : rename[j].v # obj[i].k

C21_FluentAndFreeMatchAgree ==
    last.op = "match.both" =>
        /\ ~last.free.thrown
        /\ last.fluent.returned = last.free.value
        /\ last.fluent.calls = last.free.calls

\* C22: whatever the feature list of the derived class, with or without
\* Deserialize in it, a field annotated with a default that the constructor
\* gave no value holds the default after construction, and serialize() of
\* the new instance has the default under the output key of the field.
C22_DefaultsWhateverTheFeatures ==
    /\ last.op = "new" =>
        \A f \in Listed(DeclaredFields) :
            (DefaultDeclared(f) /\ GetOwn(BaseConstructor(last.args, useDefine), f) = Undefined)
            => GetOwn(last.own, f) = OptionsOf(metadata, f).default
    /\ (last.op = "serialize" /\ last.made = "new") =>
        \A f \in Listed(DeclaredFields) :
            (DefaultDeclared(f) /\ GetOwn(last.self, f) = OptionsOf(metadata, f).default
                /\ \A g \in Listed(DeclaredFields) : OutKey(g) = OutKey(f) => g = f)
            => GetOwn(last.result, OutKey(f)) = OutValue(f, OptionsOf(metadata, f).default)

\* what a field is to receive for an incoming value: for a field declared
\* Option, null or undefined as they are and any other value in
\* Option.some; for any other field, the value
Received(f, v) ==
    IF ~DesignTypeIsOption(metadata, f) \/ v \in {Null, Undefined}
    THEN v
    ELSE [v EXCEPT !.w = @ + 1]

\* C23: from(source) and deserialize(data) give a field declared Option
\* Option.some(value) for an incoming value that is not null or absent and
\* the value itself otherwise, and a field of another type the incoming
\* value; an incoming Option, as from(x) meets in an instance x of the
\* class, is not put inside another Option.
C23_OptionFieldsAreWrappedOnce ==
    /\ last.op = "deserialize" =>
        \A i \in Decisive(last.data) :
            GetOwn(last.own, FieldFor(last.data[i].k)) =
                Received(FieldFor(last.data[i].k), last.data[i].v)
    /\ last.op = "from" =>
        \A i \in 1..Len(last.source) :
            HasOwn(last.fresh, last.source[i].k)
            => GetOwn(last.own, last.source[i].k) =
                    IF last.source[i].v.w > 0 THEN last.source[i].v
                    ELSE Received(last.source[i].k, last.source[i].v)

\* C24: the init hooks that run when a derived class is instantiated are
\* those of the descriptors registered under the listed names when derive
\* was called, whatever was registered since: a name not registered then
\* contributes no hook, and a name registered again since contributes the
\* hook it had then.
C24_InitHooksAreThoseOfDeriveTime ==
    last.op = "new" =>
        /\ \A a \in 1..Len(last.inits) :
            RegistryGet(atDerive, derived.features[last.inits[a].i]).initializeInstance
                = last.inits[a].hook
        /\ \A i \in 1..Len(derived.features) :
            RegistryGet(atDerive, derived.features[i]).initializeInstance # "none"
            => \E a \in 1..Len(last.inits) : last.inits[a].i = i

\* C25: annotating a field of a class B leaves the metadata table read for
\* every other class as it was, the class B extends included.
C25_AnnotatingASubclassLeavesTheBaseAlone ==
    last.op = "serde.subclass" => metadata = last.before

\* C26: after derive(features)(Base), for any feature list, Base and
\* Base.prototype have no member of their own and none is found through
\* them; the members the hooks installed are own members of the class
\* returned and of its prototype; and an instance made with new Base(...)
\* has run no init hook and finds no installed member.
C26_DeriveLeavesTheBaseClassAlone ==
    /\ last.op = "derive.again" =>
        /\ last.A \notin {1, 2} /\ last.made[last.A].prototype \notin {1, 2}
        /\ \A m \in MemberNames :
            /\ last.made[1].members[m] = "absent" /\ Lookup(last.made, 1, m) = "absent"
            /\ last.made[2].members[m] = "absent" /\ Lookup(last.made, 2, m) = "absent"
            /\ last.made[last.A].members[m] = last.first.statics[m]
            /\ last.made[last.made[last.A].prototype].members[m] = last.first.prototype[m]
    /\ last.op = "new.base" =>
        /\ last.inits = << >>
        /\ last.own = BaseConstructor(last.args, useDefine)
        /\ \A m \in MemberNames : Lookup(last.heap, last.proto, m) = "absent"

C26_Witness ==
    /\ last.op = "derive.again"
    /\ last.first.features = <<"Deserialize", "Serialize">>
    /\ last.replaced = << >>
    /\ last.made[last.A].members["deserialize"] = "serde.deserialize"
    /\ last.made[last.made[last.A].prototype].members["serialize"] = "serde.serialize"
    /\ Lookup(last.made, 2, "serialize") = "absent"

\* C27: Class.from(source) only writes data fields: when the class has the
\* Serialize capability, the instance returned still finds the capability's
\* serialize method, whatever keys the source has; no own property named
\* like an installed member hides it.
C27_FromOnlyWritesDataFields ==
    (last.op = "from" /\ last.prototype["serialize"] = "serde.serialize") =>
        \A m \in MemberNames :
            last.prototype[m] # "absent" => ~HasOwn(last.own, m)

=============================================================================
